---- MODULE Spec2Model ----
(***************************************************************************)
(* Model of the Park City marketing dashboard (src/app.py) and of the      *)
(* Google Trends / Google Ads analysis scripts (src/Analysis).             *)
(*                                                                         *)
(* Specifications:                                                         *)
(*   Spec          the Streamlit dashboard: two sessions, render passes    *)
(*   SpecCalls     one call of an operation of app.py or of a script, on   *)
(*                 drawn credentials, API outcomes and files               *)
(*   SpecOps       the campaign operations of app.py run one after another *)
(*                 on one Google Ads account                               *)
(*   SpecClusters  build_clusters on drawn seasonality vectors / DMA sets  *)
(*   SpecLoad      load_timeline / load_geo on drawn CSV contents          *)
(*   SpecReport    top5_dmas_and_top3_themes / compute_peak_months on      *)
(*                 drawn master frames                                     *)
(***************************************************************************)
EXTENDS Integers, Sequences, FiniteSets, TLC

VARIABLES
    sess,       \* st.session_state of every browser session
    account,    \* campaigns that exist in the Google Ads account
    passes,     \* number of render passes run so far
    pass,       \* what the last render pass did
    inp,        \* input of the operation under study; in Spec the clicks so far
    out         \* its result ("pending" record before it ran)

vars == <<sess, account, passes, pass, inp, out>>

(***************************************************************************)
(* Generic helpers                                                         *)
(***************************************************************************)
Range(s) == {s[i] : i \in 1..Len(s)}

Min(S) == CHOOSE x \in S : \A y \in S : x <= y

RECURSIVE SetToSortedSeq(_)
SetToSortedSeq(S) ==
    IF S = {} THEN <<>> ELSE <<Min(S)>> \o SetToSortedSeq(S \ {Min(S)})

RECURSIVE SumSeq(_)
SumSeq(s) == IF s = <<>> THEN 0 ELSE Head(s) + SumSeq(Tail(s))

\* Lexicographic "strictly less" on integer sequences (Python list compare)
RECURSIVE LexLess(_, _)
LexLess(a, b) ==
    IF a = <<>> THEN b # <<>>
    ELSE IF b = <<>> THEN FALSE
    ELSE IF Head(a) # Head(b) THEN Head(a) < Head(b)
    ELSE LexLess(Tail(a), Tail(b))

ISqrt(n) == CHOOSE r \in 0..n : r * r <= n /\ (r + 1) * (r + 1) > n

Pending == [fn |-> "pending"]

(***************************************************************************)
(* ads_strategy_report_GPT5High.py: clustering                             *)
(***************************************************************************)
MaxThemes == 3

\* The DMA names that occur in the geo rows
Dmas == {"Billings MT", "Salt Lake City UT"}

\* Seasonality vectors the themes can have: one constant profile and
\* three non-constant ones whose pairwise correlations are 1, 1/2, -1/2, -1.
SeasonShapes == {<<1, 1, 1>>, <<0, 1, 2>>, <<0, 2, 1>>, <<2, 1, 0>>}

CorrThresh == 50    \* corr_thresh = 0.5, in percent
JaccThresh == 15    \* jacc_thresh = 0.15, in percent

\* jaccard(a, b) in percent (floor)
Jaccard(a, b) ==
    IF a = {} /\ b = {} THEN 100
    ELSE IF a = {} \/ b = {} THEN 0
    ELSE LET inter == Cardinality(a \cap b)
             union == Cardinality(a \cup b)
         IN  IF union # 0 THEN (100 * inter) \div union ELSE 0

\* geo_sets.get(t, set())
GeoGet(geo_sets, t) == IF t \in DOMAIN geo_sets THEN geo_sets[t] ELSE {}

Dot(a, b) == SumSeq([i \in 1..Len(a) |-> a[i] * b[i]])

\* n * n * variance of the vector
VarN(a) == Len(a) * Dot(a, a) - SumSeq(a) * SumSeq(a)

\* The correlation of one pair as pairwise_correlations computes it, in
\* percent: 0 for an empty or a constant vector, np.corrcoef otherwise.
CorrOfPair(a, b) ==
    IF Len(a) = 0 \/ Len(b) = 0 THEN 0
    ELSE IF VarN(a) = 0 \/ VarN(b) = 0 THEN 0
    ELSE (100 * (Len(a) * Dot(a, b) - SumSeq(a) * SumSeq(b)))
             \div ISqrt(VarN(a) * VarN(b))

\* pairwise_correlations: one entry per pair (themes[i], themes[j]), i < j
pairwise_correlations(vectors) ==
    LET themes == SetToSortedSeq(DOMAIN vectors)
        pairs == {<<themes[i], themes[j]>> :
                     i \in 1..Len(themes), j \in 1..Len(themes)}
    IN  [p \in {q \in pairs : q[1] < q[2]} |->
            CorrOfPair(vectors[p[1]], vectors[p[2]])]

\* Variant that records an edge in one direction only
BuildAdjOneWay(vectors, geo_sets, corr_thresh, jacc_thresh) ==
    LET corr == pairwise_correlations(vectors)
        linked(a, b) ==
            /\ <<a, b>> \in DOMAIN corr
            /\ corr[<<a, b>>] >= corr_thresh
            /\ Jaccard(GeoGet(geo_sets, a), GeoGet(geo_sets, b)) >= jacc_thresh
    IN  [t \in DOMAIN vectors |->
            {u \in DOMAIN vectors : linked(t, u)}]

\* The adjacency build_clusters derives from the two thresholds.
BuildAdj(vectors, geo_sets, corr_thresh, jacc_thresh) ==
    LET corr == pairwise_correlations(vectors)
        linked(a, b) ==
            /\ <<a, b>> \in DOMAIN corr
            /\ corr[<<a, b>>] >= corr_thresh
            /\ Jaccard(GeoGet(geo_sets, a), GeoGet(geo_sets, b)) >= jacc_thresh
    IN  [t \in DOMAIN vectors |->
            {u \in DOMAIN vectors : linked(t, u) \/ linked(u, t)}]

\* The inner while loop: breadth-first traversal from the queue q.
\* Neighbours are taken in ascending order; comp is sorted afterwards, so
\* the iteration order of the Python set does not show in the result.
RECURSIVE Bfs(_, _, _, _)
Bfs(adj, q, visited, comp) ==
    IF q = <<>> THEN [comp |-> comp, visited |-> visited]
    ELSE LET cur == Head(q)
             new == adj[cur] \ visited
         IN  Bfs(adj, Tail(q) \o SetToSortedSeq(new), visited \cup new,
                 Append(comp, cur))

\* The outer for loop over themes; every component is appended sorted.
RECURSIVE Components(_, _, _, _)
Components(adj, themes, visited, clusters) ==
    IF themes = <<>> THEN clusters
    ELSE LET t == Head(themes)
         IN  IF t \in visited
             THEN Components(adj, Tail(themes), visited, clusters)
             ELSE LET r == Bfs(adj, <<t>>, visited \cup {t}, <<>>)
                  IN  Components(adj, Tail(themes), r.visited,
                          Append(clusters, SetToSortedSeq(Range(r.comp))))

\* clusters.sort(key=(-len, names)): size descending, then lexicographic
ClusterBefore(a, b) ==
    \/ Len(a) > Len(b)
    \/ Len(a) = Len(b) /\ LexLess(a, b)

RECURSIVE InsertCluster(_, _)
InsertCluster(sorted, c) ==
    IF sorted = <<>> THEN <<c>>
    ELSE IF ClusterBefore(c, Head(sorted)) THEN <<c>> \o sorted
    ELSE <<Head(sorted)>> \o InsertCluster(Tail(sorted), c)

RECURSIVE SortClusters(_, _)
SortClusters(clusters, acc) ==
    IF clusters = <<>> THEN acc
    ELSE SortClusters(Tail(clusters), InsertCluster(acc, Head(clusters)))

build_clusters(vectors, geo_sets, corr_thresh, jacc_thresh) ==
    LET themes == SetToSortedSeq(DOMAIN vectors)
    IN  IF themes = <<>> THEN <<>>
        ELSE SortClusters(
                 Components(BuildAdj(vectors, geo_sets, corr_thresh, jacc_thresh),
                            themes, {}, <<>>),
                 <<>>)

\* Inputs: themes 1..n with a seasonality vector each; geo_sets holds the
\* non-empty top-DMA set of the themes that have geo rows.
VectorInputs == UNION {[1..n -> SeasonShapes] : n \in 0..MaxThemes}

GeoSetInputs(G) == [G -> (SUBSET Dmas) \ {{}}]

InitClusters ==
    /\ \E v \in VectorInputs, G \in SUBSET (1..MaxThemes) :
          \E g \in GeoSetInputs(G) :
             inp = [fn |-> "build_clusters", vectors |-> v, geo_sets |-> g]
    /\ out = Pending
    /\ sess = <<>> /\ account = <<>> /\ passes = 0 /\ pass = Pending

RunBuildClusters ==
    /\ inp.fn = "build_clusters"
    /\ out = Pending
    /\ out' = [fn |-> "build_clusters",
               clusters |-> build_clusters(inp.vectors, inp.geo_sets,
                                           CorrThresh, JaccThresh)]
    /\ UNCHANGED <<sess, account, passes, pass, inp>>

NextClusters == RunBuildClusters

SpecClusters == InitClusters /\ [][NextClusters]_vars

(***************************************************************************)
(* C5: build_clusters returns the connected components                     *)
(***************************************************************************)
\* Two themes are joined exactly when their seasonality correlation
\* reaches corr_thresh and the Jaccard overlap of their top-DMA sets
\* reaches jacc_thresh.
ClaimEdge(a, b) ==
    /\ a # b
    /\ CorrOfPair(inp.vectors[a], inp.vectors[b]) >= CorrThresh
    /\ Jaccard(GeoGet(inp.geo_sets, a), GeoGet(inp.geo_sets, b)) >= JaccThresh

\* Themes reachable from the set S along the edges E
RECURSIVE ReachFrom(_, _)
ReachFrom(E, S) ==
    LET T == S \cup {e[2] : e \in {f \in E : f[1] \in S}}
    IN  IF T = S THEN S ELSE ReachFrom(E, T)

ClusterOf(t) == {i \in 1..Len(out.clusters) : t \in Range(out.clusters[i])}

\* C5: every theme that has a seasonality vector appears in exactly one
\* cluster (and once in it), clusters hold themes only, and two themes
\* share a cluster if and only if a path of edges connects them.
C5_ConnectedComponents ==
    out.fn = "build_clusters" =>
        LET T == DOMAIN inp.vectors
            E == {e \in T \X T : ClaimEdge(e[1], e[2])}
        IN  /\ \A t \in T :
                  /\ Cardinality(ClusterOf(t)) = 1
                  /\ \A i \in ClusterOf(t) :
                        Cardinality({k \in 1..Len(out.clusters[i]) :
                                        out.clusters[i][k] = t}) = 1
            /\ \A i \in 1..Len(out.clusters) :
                  /\ out.clusters[i] # <<>>
                  /\ Range(out.clusters[i]) \subseteq T
            /\ \A a \in T :
                  LET R == ReachFrom(E, {a})
                  IN  \A b \in T : (ClusterOf(a) = ClusterOf(b)) <=> (b \in R)

\* A cluster of three themes two of which are joined only through the third
C5_Witness ==
    /\ out.fn = "build_clusters"
    /\ \E i \in 1..Len(out.clusters) :
          /\ Len(out.clusters[i]) = 3
          /\ \E a \in Range(out.clusters[i]), b \in Range(out.clusters[i]) :
                a # b /\ ~ClaimEdge(a, b)
    /\ Len(out.clusters) = 1

(***************************************************************************)
(* ads_strategy_report_GPT5High.py: load_timeline, load_geo                *)
(***************************************************************************)
MaxRows == 2

\* A CSV cell as pandas.read_csv delivers it: a number, a text, or NaN for
\* an empty field.  A text is the sequence of its characters.
NumCell(n) == [k |-> "num", n |-> n, s |-> <<>>]
TextCell(s) == [k |-> "text", n |-> 0, s |-> s]
NanCell == [k |-> "nan", n |-> 0, s |-> <<>>]

\* Week cells: two parseable dates (day numbers), a text that is no date,
\* and an empty field
WeekCells == {NumCell(1), NumCell(2), TextCell(<<"x">>), NanCell}

\* Value cells: a number, the text "<1" of Google Trends, an empty field
ValueCells == {NumCell(7), TextCell(<<"<", "1">>), NanCell}

\* DMA cells: a name, a name with blanks around it, blanks only, empty field
DmaCells == {TextCell(<<"D">>), TextCell(<<" ", "E", " ">>),
             TextCell(<<" ">>), NanCell}

\* pd.to_datetime(errors="coerce"): the date, or NaT
ToDatetime(c) == IF c.k = "num" THEN c ELSE NanCell

\* pd.to_numeric(errors="coerce").fillna(0)
ToNumericFillZero(c) == IF c.k = "num" THEN c.n ELSE 0

\* astype(str): NaN becomes the three-character text "nan"
AsTypeStr(c) ==
    IF c.k = "nan" THEN <<"n", "a", "n">>
    ELSE IF c.k = "text" THEN c.s
    ELSE <<"#">>

\* str.strip()
RECURSIVE LStrip(_)
LStrip(s) == IF s # <<>> /\ Head(s) = " " THEN LStrip(Tail(s)) ELSE s

RECURSIVE RStrip(_)
RStrip(s) ==
    IF s # <<>> /\ s[Len(s)] = " " THEN RStrip(SubSeq(s, 1, Len(s) - 1)) ELSE s

Strip(s) == RStrip(LStrip(s))

Count(s, x) == Cardinality({i \in 1..Len(s) : s[i] = x})

SameBag(s, t) ==
    /\ Len(s) = Len(t)
    /\ \A x \in Range(s) \cup Range(t) : Count(s, x) = Count(t, x)

AscendingByDate(s) == \A i \in 1..(Len(s) - 1) : s[i].date <= s[i + 1].date

\* sort_values("date"): ascending; the order of rows with equal dates is
\* left open by the default (unstable) sort
SortValuesByDate(rows) ==
    {s \in [1..Len(rows) -> Range(rows)] : SameBag(s, rows) /\ AscendingByDate(s)}

\* load_timeline: the set of frames it can return (rows as a sequence)
load_timeline(file) ==
    IF file.status = "none" THEN {<<>>}
    ELSE IF file.status = "unreadable" THEN {<<>>}
    ELSE IF file.rows = <<>> \/ ~file.hasKey THEN {<<>>}
    ELSE IF ~file.hasValue THEN {<<>>}
    ELSE LET frame == [i \in 1..Len(file.rows) |->
                          [date |-> ToDatetime(file.rows[i].key),
                           value |-> ToNumericFillZero(file.rows[i].value)]]
             HasDate(r) == r.date.k # "nan"
             kept == SelectSeq(frame, HasDate)
             dated == [i \in 1..Len(kept) |->
                          [date |-> kept[i].date.n, value |-> kept[i].value]]
         IN  SortValuesByDate(dated)

\* load_geo
load_geo(file) ==
    IF file.status = "none" THEN <<>>
    ELSE IF file.status = "unreadable" THEN <<>>
    ELSE IF file.rows = <<>> THEN <<>>
    ELSE IF ~file.hasValue THEN <<>>
    ELSE LET frame == [i \in 1..Len(file.rows) |->
                          [dma |-> Strip(AsTypeStr(file.rows[i].key)),
                           score |-> ToNumericFillZero(file.rows[i].value)]]
             HasName(r) == Len(r.dma) > 0
         IN  SelectSeq(frame, HasName)

CsvRows(KeyCells) ==
    UNION {[1..n -> [key : KeyCells, value : ValueCells]] : n \in 0..MaxRows}

\* A file that was not found, one read_csv fails on, and parsed files;
\* hasKey: the header has a "Week" column (always TRUE for geoMap),
\* hasValue: there is a second column.
CsvFiles(KeyCells, kind) ==
    {[status |-> "none", hasKey |-> TRUE, hasValue |-> TRUE, rows |-> <<>>],
     [status |-> "unreadable", hasKey |-> TRUE, hasValue |-> TRUE, rows |-> <<>>]}
    \cup {[status |-> "ok", hasKey |-> hk, hasValue |-> hv, rows |-> r] :
             hk \in (IF kind = "timeline" THEN BOOLEAN ELSE {TRUE}),
             hv \in BOOLEAN, r \in CsvRows(KeyCells)}

InitLoad ==
    /\ \/ \E f \in CsvFiles(WeekCells, "timeline") :
             inp = [fn |-> "load_timeline", file |-> f]
       \/ \E f \in CsvFiles(DmaCells, "geo") :
             inp = [fn |-> "load_geo", file |-> f]
    /\ out = Pending
    /\ sess = <<>> /\ account = <<>> /\ passes = 0 /\ pass = Pending

RunLoadTimeline ==
    /\ inp.fn = "load_timeline"
    /\ out = Pending
    /\ \E rows \in load_timeline(inp.file) :
          out' = [fn |-> "load_timeline", rows |-> rows]
    /\ UNCHANGED <<sess, account, passes, pass, inp>>

RunLoadGeo ==
    /\ inp.fn = "load_geo"
    /\ out = Pending
    /\ out' = [fn |-> "load_geo", rows |-> load_geo(inp.file)]
    /\ UNCHANGED <<sess, account, passes, pass, inp>>

NextLoad == RunLoadTimeline \/ RunLoadGeo

SpecLoad == InitLoad /\ [][NextLoad]_vars

(***************************************************************************)
(* C9: rows kept and values coerced by load_timeline and load_geo          *)
(***************************************************************************)
WellFormed(file) ==
    file.status = "ok" /\ file.hasKey /\ file.hasValue

\* What the claim expects of one value: the number, 0 when not numeric
ClaimValue(c) == IF c.k = "num" THEN c.n ELSE 0

\* The DMA name a cell holds: an empty field holds the empty name
ClaimName(c) == IF c.k = "text" THEN Strip(c.s) ELSE <<>>

ClaimTimelineRows(file) ==
    LET Usable(r) == r.key.k = "num"
        kept == SelectSeq(file.rows, Usable)
    IN  [i \in 1..Len(kept) |->
            [date |-> kept[i].key.n, value |-> ClaimValue(kept[i].value)]]

ClaimGeoRows(file) ==
    LET Usable(r) == ClaimName(r.key) # <<>>
        kept == SelectSeq(file.rows, Usable)
    IN  [i \in 1..Len(kept) |->
            [dma |-> ClaimName(kept[i].key), score |-> ClaimValue(kept[i].value)]]

\* The timeline half of C9: the rows with a parseable date are kept with
\* their values coerced (non-numeric to 0) and come out in ascending date
\* order.
C9_TimelineRows ==
    (out.fn = "load_timeline" /\ WellFormed(inp.file)) =>
        /\ SameBag(out.rows, ClaimTimelineRows(inp.file))
        /\ AscendingByDate(out.rows)

\* C9: load_timeline and load_geo keep every input row whose key is usable
\* and coerce its value: a non-numeric value becomes 0, a timeline row with
\* an unparseable date is dropped, a geo row with an empty DMA name is
\* dropped, and the timeline rows are returned in ascending date order.
C9_RowsKeptAndCoerced ==
    /\ C9_TimelineRows
    /\ (out.fn = "load_geo" /\ WellFormed(inp.file)) =>
          out.rows = ClaimGeoRows(inp.file)

(***************************************************************************)
(* app.py: load_google_ads_client                                          *)
(***************************************************************************)
\* A credential source is absent, present but failing to load, or valid.
SourceStates == {"absent", "invalid", "valid"}

\* One line shown on the page or printed: st.error / st.warning / print
Report(level, what, i) == [level |-> level, what |-> what, i |-> i]

\* load_google_ads_client: the source whose client is returned ("None" for
\* (None, None)) and what is reported on the page.
\*  - secrets: any exception of the inner try falls through to the
\*    environment variables;
\*  - environment: taken when GOOGLE_ADS_DEVELOPER_TOKEN is set; an
\*    exception of load_from_dict reaches the outer except;
\*  - google-ads.yaml: taken when the file exists; an exception of
\*    load_from_storage reaches the outer except.
ClaimLoadClient(secrets, env, yaml) ==
    IF secrets = "valid" THEN [client |-> "secrets", reports |-> <<>>]
    ELSE IF env = "valid" THEN [client |-> "env", reports |-> <<>>]
    ELSE IF yaml = "valid" THEN [client |-> "yaml", reports |-> <<>>]
    ELSE [client |-> "None", reports |-> <<Report("error", "no credentials", 0)>>]

load_google_ads_client(secrets, env, yaml) ==
    IF secrets = "valid" THEN [client |-> "secrets", reports |-> <<>>]
    ELSE IF env = "valid" THEN [client |-> "env", reports |-> <<>>]
    ELSE IF env = "invalid"
         THEN [client |-> "None",
               reports |-> <<Report("error", "Error loading Google Ads client", 0)>>]
    ELSE IF yaml = "valid" THEN [client |-> "yaml", reports |-> <<>>]
    ELSE IF yaml = "invalid"
         THEN [client |-> "None",
               reports |-> <<Report("error", "Error loading Google Ads client", 0)>>]
    ELSE [client |-> "None",
          reports |-> <<Report("error", "No Google Ads credentials found", 0)>>]

Creds == [secrets : SourceStates, env : SourceStates, yaml : SourceStates]

ClientOf(c) == load_google_ads_client(c.secrets, c.env, c.yaml)

(***************************************************************************)
(* Google Ads requests                                                     *)
(***************************************************************************)
\* One request sent to the Google Ads API: the service method, the place
\* that issues it (operation, campaign group, market), whether it
\* succeeded, the status the created objects carry, and their number.
Request(method, site, ok, status, n) ==
    [method |-> method, site |-> site, ok |-> ok, status |-> status, n |-> n,
     texts |-> {}]

\* A keyword request with the keyword texts it carries (kept for the Park
\* City campaign, whose keywords are compared with its configuration)
KeywordRequest(site, ok, texts) ==
    [method |-> "mutate_ad_group_criteria", site |-> site, ok |-> ok,
     status |-> "ENABLED", n |-> Cardinality(texts), texts |-> texts]

Site(op, group, market) == [op |-> op, group |-> group, market |-> market]

\* The common shape of an operation's result
Result(fn, requests, reports, ret, exited) ==
    [fn |-> fn, requests |-> requests, reports |-> reports, ret |-> ret,
     exited |-> exited]

(***************************************************************************)
(* app.py: get_keyword_ideas                                               *)
(***************************************************************************)
MaxIdeas == 2
MaxMessages == 2

\* The response of generate_keyword_ideas: the ideas delivered before the
\* stream ends or raises, and how it ends: "ok", "ads_error" (a
\* GoogleAdsException with an error code and a list of messages) or
\* "error" (any other exception).
IdeaResponses ==
    {[ideas |-> n, ending |-> e, code |-> c, messages |-> m] :
        n \in 0..MaxIdeas, e \in {"ok", "ads_error", "error"},
        c \in {"NONE", "AUTHENTICATION_ERROR", "QUOTA_ERROR"},
        m \in 0..MaxMessages}

ValidResponse(r) ==
    /\ (r.ending = "ads_error") <=> (r.code # "NONE")
    /\ (r.ending # "ads_error") => (r.messages = 0)

\* keywords_data at the time the loop over the response stops
IdeasCollected(r, max_keywords) ==
    [i \in 1..(IF r.ideas <= max_keywords THEN r.ideas ELSE max_keywords) |-> i]

\* The st.error lines of the GoogleAdsException handler
AdsErrorReports(r) ==
    <<Report("error", r.code, 0)>>
    \o [i \in 1..r.messages |-> Report("error", "message", i)]

\* Variant that hands back the ideas collected before the error
get_keyword_ideas_partial(r, max_keywords) ==
    LET req == Request("generate_keyword_ideas", Site("get_keyword_ideas", 0, 0),
                       r.ending = "ok", "n/a", 1)
    IN  IF r.ending = "ok"
        THEN Result("get_keyword_ideas", <<req>>, <<>>,
                    IdeasCollected(r, max_keywords), FALSE)
        ELSE IF r.ending = "ads_error"
        THEN Result("get_keyword_ideas", <<req>>, AdsErrorReports(r),
                    IdeasCollected(r, max_keywords), FALSE)
        ELSE Result("get_keyword_ideas", <<req>>,
                    <<Report("error", "Unexpected error", 0)>>, <<>>, FALSE)

get_keyword_ideas(r, max_keywords) ==
    LET req == Request("generate_keyword_ideas", Site("get_keyword_ideas", 0, 0),
                       r.ending = "ok", "n/a", 1)
    IN  IF r.ending = "ok"
        THEN Result("get_keyword_ideas", <<req>>, <<>>,
                    IdeasCollected(r, max_keywords), FALSE)
        ELSE IF r.ending = "ads_error"
        THEN Result("get_keyword_ideas", <<req>>, AdsErrorReports(r), <<>>, FALSE)
        ELSE Result("get_keyword_ideas", <<req>>,
                    <<Report("error", "Unexpected error", 0)>>, <<>>, FALSE)

(***************************************************************************)
(* google_ads_keyword_analysis.py: the script run                          *)
(***************************************************************************)
\* Variant that goes on after a GoogleAdsException instead of sys.exit(1)
keyword_analysis_script_continue(envComplete, r) ==
    LET req == Request("generate_keyword_ideas", Site("get_keyword_metrics", 0, 0),
                       r.ending = "ok", "n/a", 1)
    IN  IF ~envComplete
        THEN Result("keyword_analysis_script", <<>>,
                    <<Report("print", "environment variables are not set", 0)>>,
                    <<>>, TRUE)
        ELSE IF r.ending = "ok"
        THEN Result("keyword_analysis_script", <<req>>,
                    <<IF r.ideas = 0
                      THEN Report("print", "No metrics returned", 0)
                      ELSE Report("print", "Keyword Performance Analysis", 0)>>,
                    [i \in 1..r.ideas |-> i], FALSE)
        ELSE IF r.ending = "ads_error"
        THEN Result("keyword_analysis_script", <<req>>,
                    [i \in 1..(1 + r.messages) |->
                        IF i = 1 THEN Report("print", r.code, 0)
                        ELSE Report("print", "message", i - 1)],
                    <<>>, FALSE)
        ELSE Result("keyword_analysis_script", <<req>>,
                    <<Report("print", "An unexpected error occurred", 0)>>,
                    <<>>, TRUE)

\* __main__ and get_keyword_metrics: missing environment variables, a
\* GoogleAdsException and any other exception all end in sys.exit(1).
keyword_analysis_script(envComplete, r) ==
    LET req == Request("generate_keyword_ideas", Site("get_keyword_metrics", 0, 0),
                       r.ending = "ok", "n/a", 1)
    IN  IF ~envComplete
        THEN Result("keyword_analysis_script", <<>>,
                    <<Report("print", "environment variables are not set", 0)>>,
                    <<>>, TRUE)
        ELSE IF r.ending = "ok"
        THEN Result("keyword_analysis_script", <<req>>,
                    <<IF r.ideas = 0
                      THEN Report("print", "No metrics returned", 0)
                      ELSE Report("print", "Keyword Performance Analysis", 0)>>,
                    [i \in 1..r.ideas |-> i], FALSE)
        ELSE IF r.ending = "ads_error"
        THEN Result("keyword_analysis_script", <<req>>,
                    [i \in 1..(1 + r.messages) |->
                        IF i = 1 THEN Report("print", r.code, 0)
                        ELSE Report("print", "message", i - 1)],
                    <<>>, TRUE)
        ELSE Result("keyword_analysis_script", <<req>>,
                    <<Report("print", "An unexpected error occurred", 0)>>,
                    <<>>, TRUE)

(***************************************************************************)
(* app.py: campaign creation                                               *)
(***************************************************************************)
\* create_campaign_budget: one mutate_campaign_budgets request; a failure
\* is reported and None is returned to the caller.
\* Variant that sends the budget request a second time after a failure
create_campaign_budget_retry(site, ok) ==
    [requests |-> IF ok
                  THEN <<Request("mutate_campaign_budgets", site, ok, "n/a", 1)>>
                  ELSE <<Request("mutate_campaign_budgets", site, ok, "n/a", 1),
                         Request("mutate_campaign_budgets", site, ok, "n/a", 1)>>,
     reports |-> IF ok THEN <<>> ELSE <<Report("error", "Budget creation error", 0)>>,
     budget_id |-> IF ok THEN "id" ELSE "None"]

create_campaign_budget(site, ok) ==
    [requests |-> <<Request("mutate_campaign_budgets", site, ok, "n/a", 1)>>,
     reports |-> IF ok THEN <<>> ELSE <<Report("error", "Budget creation error", 0)>>,
     budget_id |-> IF ok THEN "id" ELSE "None"]

\* How one campaign creation goes: the first request that fails among
\* budget, campaign, ad group, keywords ("none": all succeed), for the ad
\* group / keyword requests the market at which it happens, and whether
\* the two targeting requests fail.  A campaign that references the budget
\* "None" is rejected by the API.
FailPoints == {"none", "budget", "campaign", "adgroup", "keywords"}

CampaignAccepted(o) == o.fp \notin {"budget", "campaign"}

ParkCityGeoLocations == 5       \* locations[:5], all found in location_map
ParkCityKeywordCount == 21      \* 6 exact + 11 phrase + 4 broad keywords

\* create_park_city_campaign, campaign_config: keywords, negative_keywords
ConfigKeywords ==
    {"utah real estate", "park city utah", "real estate in park city",
     "park city utah real estate", "park city real estate for sale",
     "park city mountain", "park city ski resort", "park city resort",
     "park city hotels", "park city resorts", "park city ski resorts",
     "park city golf", "park city mountain resort", "park city utah homes",
     "park city real estate agent", "park city homes for sale",
     "park city condos for sale", "park city townhomes",
     "park city luxury homes", "park city investment property"}

ConfigNegativeKeywords ==
    {"rental", "apartment", "commercial", "kansas city", "overland park",
     "jobs", "employment", "career", "work", "job", "hire",
     "weather", "forecast", "temperature", "snow report",
     "events", "festival", "concert", "tickets",
     "restaurants", "dining", "food", "menu",
     "hotels", "lodging", "accommodation", "booking",
     "skiing", "snowboarding", "lessons", "rentals",
     "golf", "course", "tee times", "membership"}

\* create_park_city_ad_groups_and_keywords: the three keyword lists it
\* writes out itself (exact, phrase, broad match)
HighPriorityKeywords ==
    {"park city real estate", "park city utah real estate",
     "park city real estate for sale", "park city homes for sale",
     "park city condos for sale", "park city luxury homes"}

MediumPriorityKeywords ==
    {"utah real estate", "park city utah", "real estate in park city",
     "park city mountain", "park city ski resort", "park city resort",
     "park city hotels", "park city resorts", "park city ski resorts",
     "park city golf", "park city mountain resort"}

BroadKeywords ==
    {"park city utah homes", "park city real estate agent",
     "park city townhomes", "park city investment property"}

ParkCityKeywords ==
    HighPriorityKeywords \cup MediumPriorityKeywords \cup BroadKeywords

\* add_geographic_targeting / add_language_targeting: a failure is a
\* warning and never ends the campaign creation
add_targeting(site, method, n, ok, what) ==
    [requests |-> IF n > 0 THEN <<Request(method, site, ok, "n/a", n)>> ELSE <<>>,
     reports |-> IF n > 0 /\ ~ok THEN <<Report("warning", what, 0)>> ELSE <<>>]

\* create_park_city_ad_groups_and_keywords: one ad group, then the
\* 21 keywords in batches of 100, which is one request
create_park_city_ad_groups_and_keywords(site, o) ==
    LET adg == Request("mutate_ad_groups", site, o.fp # "adgroup", "ENABLED", 1)
        kw == KeywordRequest(site, o.fp # "keywords", ParkCityKeywords)
        err == <<Report("error", "Error creating ad groups and keywords", 0)>>
    IN  IF ~adg.ok
        THEN [requests |-> <<adg>>, reports |-> err,
              ad_group_count |-> 0, keyword_count |-> 0]
        ELSE IF ~kw.ok
        THEN [requests |-> <<adg, kw>>, reports |-> err,
              ad_group_count |-> 0, keyword_count |-> 0]
        ELSE [requests |-> <<adg, kw>>, reports |-> <<>>,
              ad_group_count |-> 1, keyword_count |-> ParkCityKeywordCount]

CampaignStatus == "PAUSED"

\* Variant in which a failed targeting request ends the campaign creation
create_expert_park_city_campaign_abort(o, status) ==
    LET site == Site("park_city", 0, 0)
        bud == create_campaign_budget(site, o.fp # "budget")
        camp == Request("mutate_campaigns", site, CampaignAccepted(o), status, 1)
        geo == add_targeting(site, "mutate_campaign_criteria:location",
                             ParkCityGeoLocations, ~o.geoFail,
                             "Could not add geographic targeting")
        lang == add_targeting(site, "mutate_campaign_criteria:language",
                              1, ~o.langFail, "Could not add language targeting")
        adk == create_park_city_ad_groups_and_keywords(site, o)
    IN  IF ~camp.ok
        THEN [requests |-> bud.requests \o <<camp>>,
              reports |-> bud.reports
                          \o <<Report("error", "Error creating Park City campaign", 0)>>,
              ret |-> [created |-> FALSE, status |-> "None",
                       ad_group_count |-> 0, keyword_count |-> 0]]
        ELSE IF o.geoFail \/ o.langFail
        THEN [requests |-> bud.requests \o <<camp>> \o geo.requests,
              reports |-> bud.reports \o geo.reports \o lang.reports
                          \o <<Report("error", "Error creating Park City campaign", 0)>>,
              ret |-> [created |-> FALSE, status |-> "None",
                       ad_group_count |-> 0, keyword_count |-> 0]]
        ELSE [requests |-> bud.requests \o <<camp>> \o geo.requests
                           \o lang.requests \o adk.requests,
              reports |-> bud.reports \o geo.reports \o lang.reports \o adk.reports,
              ret |-> [created |-> TRUE, status |-> "PAUSED",
                       ad_group_count |-> adk.ad_group_count,
                       keyword_count |-> adk.keyword_count]]

\* create_expert_park_city_campaign
create_expert_park_city_campaign_status(o, status) ==
    LET site == Site("park_city", 0, 0)
        bud == create_campaign_budget(site, o.fp # "budget")
        camp == Request("mutate_campaigns", site, CampaignAccepted(o), status, 1)
        geo == add_targeting(site, "mutate_campaign_criteria:location",
                             ParkCityGeoLocations, ~o.geoFail,
                             "Could not add geographic targeting")
        lang == add_targeting(site, "mutate_campaign_criteria:language",
                              1, ~o.langFail, "Could not add language targeting")
        adk == create_park_city_ad_groups_and_keywords(site, o)
    IN  IF ~camp.ok
        THEN [requests |-> bud.requests \o <<camp>>,
              reports |-> bud.reports
                          \o <<Report("error", "Error creating Park City campaign", 0)>>,
              ret |-> [created |-> FALSE, status |-> "None",
                       ad_group_count |-> 0, keyword_count |-> 0]]
        ELSE [requests |-> bud.requests \o <<camp>> \o geo.requests
                           \o lang.requests \o adk.requests,
              reports |-> bud.reports \o geo.reports \o lang.reports \o adk.reports,
              ret |-> [created |-> TRUE, status |-> "PAUSED",
                       ad_group_count |-> adk.ad_group_count,
                       keyword_count |-> adk.keyword_count]]

\* Variant that sends the campaign with status ENABLED
create_expert_park_city_campaign_enabled(o) ==
    create_expert_park_city_campaign_status(o, "ENABLED")

create_expert_park_city_campaign(o) ==
    create_expert_park_city_campaign_status(o, CampaignStatus)

\* create_park_city_campaign
create_park_city_campaign(creds, o) ==
    LET cl == ClientOf(creds)
        r == create_expert_park_city_campaign(o)
    IN  IF cl.client = "None"
        THEN Result("create_park_city_campaign", <<>>,
                    cl.reports \o <<Report("error", "Google Ads API not connected", 0)>>,
                    [created |-> FALSE, status |-> "None",
                     ad_group_count |-> 0, keyword_count |-> 0], FALSE)
        ELSE Result("create_park_city_campaign", r.requests,
                    r.reports \o
                      <<IF r.ret.created
                        THEN Report("success", "Park City Campaign Created Successfully", 0)
                        ELSE Report("error", "Failed to create Park City campaign", 0)>>,
                    r.ret, FALSE)

ParkCityOutcomes ==
    [fp : FailPoints, market : {1}, geoFail : BOOLEAN, langFail : BOOLEAN]

\* analyze_campaign_groups: the four campaign groups; montana says whether
\* 'Montana' occurs in the group's geographic_focus.
CampaignGroups ==
    <<[name |-> "Premium Ski Markets", budget |-> 800, montana |-> TRUE,
       markets |-> <<"Park City Real Estate", "Deer Valley Real Estate",
                     "Deer Valley East Real Estate">>],
      [name |-> "Growing Utah Markets", budget |-> 600, montana |-> FALSE,
       markets |-> <<"Heber Utah Real Estate", "Kamas Real Estate">>],
      [name |-> "Niche Communities", budget |-> 400, montana |-> TRUE,
       markets |-> <<"Red Ledges Real Estate", "Glenwild",
                     "Victory Ranch Real Esate">>],
      [name |-> "Specialized Properties", budget |-> 400, montana |-> TRUE,
       markets |-> <<"Ski in Ski Out Home for Sale", "Promontory Park City ">>]>>

\* Number of base keywords get_keywords_for_market lists for a market
BaseKeywordCount(market) ==
    IF market \in {"Park City Real Estate", "Deer Valley Real Estate"} THEN 5 ELSE 4

MontanaKeywordCount == 5
KeywordLimit == 10

\* len(get_keywords_for_market(market, group)): base keywords, five more
\* for a Montana group, cut to 10
KeywordCountFor(market, group) ==
    LET n == BaseKeywordCount(market)
                 + (IF group.montana THEN MontanaKeywordCount ELSE 0)
    IN  IF n <= KeywordLimit THEN n ELSE KeywordLimit

\* create_ad_groups_and_keywords: the loop over the group's markets from
\* market m on; any failure ends it with the counts (0, 0)
RECURSIVE AdGroupLoop(_, _, _, _, _, _)
AdGroupLoop(g, o, m, requests, ad_group_count, keyword_count) ==
    LET group == CampaignGroups[g]
        site == Site("group", g, m)
        adg == Request("mutate_ad_groups", site,
                       ~(o.fp = "adgroup" /\ o.market = m), "ENABLED", 1)
        n == KeywordCountFor(group.markets[m], group)
        kw == Request("mutate_ad_group_criteria", site,
                      ~(o.fp = "keywords" /\ o.market = m), "ENABLED", n)
        err == <<Report("error", "Ad group/keyword creation error", 0)>>
    IN  IF m > Len(group.markets)
        THEN [requests |-> requests, reports |-> <<>>,
              ad_group_count |-> ad_group_count, keyword_count |-> keyword_count]
        ELSE IF ~adg.ok
        THEN [requests |-> Append(requests, adg), reports |-> err,
              ad_group_count |-> 0, keyword_count |-> 0]
        ELSE IF ~kw.ok
        THEN [requests |-> requests \o <<adg, kw>>, reports |-> err,
              ad_group_count |-> 0, keyword_count |-> 0]
        ELSE AdGroupLoop(g, o, m + 1, requests \o <<adg, kw>>,
                         ad_group_count + 1, keyword_count + n)

create_ad_groups_and_keywords(g, o) == AdGroupLoop(g, o, 1, <<>>, 0, 0)

\* create_expert_campaign for group g
create_expert_campaign(g, o) ==
    LET site == Site("group", g, 0)
        bud == create_campaign_budget(site, o.fp # "budget")
        camp == Request("mutate_campaigns", site, CampaignAccepted(o),
                        CampaignStatus, 1)
        adk == create_ad_groups_and_keywords(g, o)
    IN  IF ~camp.ok
        THEN [requests |-> bud.requests \o <<camp>>,
              reports |-> bud.reports
                          \o <<Report("error", "Campaign creation error", 0)>>,
              ret |-> [created |-> FALSE, group |-> g,
                       ad_group_count |-> 0, keyword_count |-> 0]]
        ELSE [requests |-> bud.requests \o <<camp>> \o adk.requests,
              reports |-> bud.reports \o adk.reports,
              ret |-> [created |-> TRUE, group |-> g,
                       ad_group_count |-> adk.ad_group_count,
                       keyword_count |-> adk.keyword_count]]

SummaryStatus == "Active"

\* create_google_ads_campaigns: the loop over the campaign groups from
\* group g on, then the summary table of the campaigns created
RECURSIVE GroupLoop(_, _, _, _, _)
GroupLoop(os, g, requests, reports, created) ==
    IF g > Len(CampaignGroups)
    THEN Result("create_google_ads_campaigns", requests, reports,
                [created |-> created,
                 summary |-> [i \in 1..Len(created) |->
                                 [group |-> created[i].group,
                                  keywords |-> created[i].keyword_count,
                                  ad_groups |-> created[i].ad_group_count,
                                  status |-> SummaryStatus]]],
                FALSE)
    ELSE LET r == create_expert_campaign(g, os[g])
         IN  GroupLoop(os, g + 1, requests \o r.requests,
                 reports \o r.reports \o
                   <<IF r.ret.created THEN Report("success", "Created", g)
                     ELSE Report("warning", "Failed to create", g)>>,
                 IF r.ret.created THEN Append(created, r.ret) ELSE created)

create_google_ads_campaigns(creds, os) ==
    LET cl == ClientOf(creds)
    IN  IF cl.client = "None"
        THEN Result("create_google_ads_campaigns", <<>>,
                    cl.reports \o <<Report("error", "Google Ads API not connected", 0)>>,
                    [created |-> <<>>, summary |-> <<>>], FALSE)
        ELSE GroupLoop(os, 1, <<>>, <<>>, <<>>)

\* The ways the creation of group g can go
GroupOutcomes(g) ==
    {o \in [fp : FailPoints, market : 1..Len(CampaignGroups[g].markets),
            geoFail : {FALSE}, langFail : {FALSE}] :
        o.fp \notin {"adgroup", "keywords"} => o.market = 1}

AllGroupOutcomes ==
    {os \in [1..Len(CampaignGroups) -> UNION {GroupOutcomes(g) : g \in 1..Len(CampaignGroups)}] :
        \A g \in 1..Len(CampaignGroups) : os[g] \in GroupOutcomes(g)}

\* check_existing_campaigns: one search request; the statuses it lists
check_existing_campaigns(creds, ok, campaigns) ==
    LET cl == ClientOf(creds)
        req == Request("search", Site("check_existing_campaigns", 0, 0), ok, "n/a", 1)
    IN  IF cl.client = "None"
        THEN Result("check_existing_campaigns", <<>>,
                    cl.reports \o <<Report("error", "Google Ads API not connected", 0)>>,
                    <<>>, FALSE)
        ELSE IF ~ok
        THEN Result("check_existing_campaigns", <<req>>,
                    <<Report("error", "Error checking campaigns", 0)>>, <<>>, FALSE)
        ELSE Result("check_existing_campaigns", <<req>>,
                    <<IF campaigns = <<>>
                      THEN Report("warning", "No campaigns found", 0)
                      ELSE Report("success", "Found campaigns", Len(campaigns))>>,
                    [i \in 1..Len(campaigns) |-> campaigns[i].status], FALSE)

\* The campaigns the successful mutate_campaigns requests add to the account
CampaignsCreated(requests) ==
    LET IsCampaign(r) == r.method = "mutate_campaigns" /\ r.ok
        made == SelectSeq(requests, IsCampaign)
    IN  [i \in 1..Len(made) |-> [site |-> made[i].site, status |-> made[i].status]]

(***************************************************************************)
(* Reading the Google Trends CSV files                                     *)
(***************************************************************************)
FileStatus == {"none", "unreadable", "ok"}

\* app.py, load_existing_trends_data: markets (two of the ten listed),
\* timeframes, and the three files of a timeframe folder with the suffix
\* of the key each is stored under
TrendsMarkets == <<"Glenwild", "Park City Real Estate">>
Timeframes == <<"1 Year", "2 Year", "5 Year">>
TrendsKinds == <<"multiTimeline", "relatedQueries", "geoMap">>

KeySuffix(kind) ==
    IF kind = "multiTimeline" THEN ""
    ELSE IF kind = "relatedQueries" THEN "_queries" ELSE "_geo"

TrendsFile(market, timeframe, kind) ==
    [market |-> market, timeframe |-> timeframe, kind |-> kind]

\* The files in the order the loops visit them
RECURSIVE Flatten(_)
Flatten(ss) == IF ss = <<>> THEN <<>> ELSE Head(ss) \o Flatten(Tail(ss))

TrendsFilesInOrder ==
    Flatten([m \in 1..Len(TrendsMarkets) |->
        Flatten([t \in 1..Len(Timeframes) |->
            [k \in 1..Len(TrendsKinds) |->
                TrendsFile(TrendsMarkets[m], Timeframes[t], TrendsKinds[k])]])])

\* load_existing_trends_data: a file found by glob is read once; a
\* read_csv that fails is a warning and the next file is tried.  files
\* gives the status of each file.
load_existing_trends_data(files) ==
    LET Found(f) == files[f] # "none"
        Unreadable(f) == files[f] = "unreadable"
        bad == SelectSeq(TrendsFilesInOrder, Unreadable)
        Keys(market) ==
            {[timeframe |-> f.timeframe, suffix |-> KeySuffix(f.kind)] :
                f \in {g \in Range(TrendsFilesInOrder) :
                          g.market = market /\ files[g] = "ok"}}
    IN  [fn |-> "load_existing_trends_data",
         reads |-> SelectSeq(TrendsFilesInOrder, Found),
         requests |-> <<>>,
         reports |-> [i \in 1..Len(bad) |-> Report("warning", "Could not load", i)],
         ret |-> [m \in {x \in Range(TrendsMarkets) : Keys(x) # {}} |-> Keys(m)],
         exited |-> FALSE]

MaxOddFiles == 1

\* The file systems drawn: all files readable but for MaxOddFiles of them
RECURSIVE OddFileSystems(_)
OddFileSystems(k) ==
    IF k = 0 THEN {[f \in Range(TrendsFilesInOrder) |-> "ok"]}
    ELSE LET less == OddFileSystems(k - 1)
         IN  less \cup {[files EXCEPT ![f] = st] :
                            files \in less, f \in Range(TrendsFilesInOrder),
                            st \in FileStatus}

TrendsFileSystems == OddFileSystems(MaxOddFiles)

\* The characters of the strings that make up the keys of a market's data
Chars(s) ==
    CASE s = "" -> <<>>
      [] s = "1 Year" -> <<"1", " ", "Y", "e", "a", "r">>
      [] s = "2 Year" -> <<"2", " ", "Y", "e", "a", "r">>
      [] s = "5 Year" -> <<"5", " ", "Y", "e", "a", "r">>
      [] s = "1_year" -> <<"1", "_", "y", "e", "a", "r">>
      [] s = "2_year" -> <<"2", "_", "y", "e", "a", "r">>
      [] s = "5_year" -> <<"5", "_", "y", "e", "a", "r">>
      [] s = "year" -> <<"y", "e", "a", "r">>
      [] s = "_queries" -> <<"_", "q", "u", "e", "r", "i", "e", "s">>
      [] s = "_geo" -> <<"_", "g", "e", "o">>

\* The key a loaded table is stored under: f"{timeframe}", f"{timeframe}_queries"
\* or f"{timeframe}_geo"
KeyName(key) == Chars(key.timeframe) \o Chars(key.suffix)

\* Python's  sub in s  on strings
Contains(sub, s) ==
    \E i \in 0..(Len(s) - Len(sub)) : SubSeq(s, i + 1, i + Len(sub)) = sub

\* The first column of a row of a related-queries table
QueryCells == {"NaN", "TOP", "keyword"}

\* The related-queries tables drawn: up to MaxRows rows
QueryTables == UNION {[1..n -> QueryCells] : n \in 0..MaxRows}

\* The rows of a table that analyze_trends_data takes as keywords
KeywordRows(table) ==
    {i \in 1..Len(table) : table[i] # "NaN" /\ table[i] # "TOP"}

\* analyze_trends_data: the timeframes whose queries it looks up
AnalyzedTimeframes == <<"1_year", "2_year", "5_year">>

\* analyze_trends_data on the loader's result; table is the content of
\* every related-queries table loaded.  A market's keywords are the rows
\* of the tables found under f"{timeframe}_queries".
analyze_trends_data(trends_data, table) ==
    LET Has(market, name) == \E key \in trends_data[market] : KeyName(key) = name
        MarketKeywords(market) ==
            SumSeq([t \in 1..Len(AnalyzedTimeframes) |->
                IF Has(market, Chars(AnalyzedTimeframes[t]) \o Chars("_queries"))
                THEN Cardinality(KeywordRows(table)) ELSE 0])
        markets == SelectSeq(TrendsMarkets, LAMBDA m : m \in DOMAIN trends_data)
    IN  [fn |-> "analyze_trends_data", requests |-> <<>>, reports |-> <<>>,
         ret |-> [total_keywords |->
                      SumSeq([i \in 1..Len(markets) |-> MarketKeywords(markets[i])]),
                  market_insights |->
                      {m \in DOMAIN trends_data : MarketKeywords(m) > 0}],
         exited |-> FALSE]

\* show_market_trends: the summary row of each market
show_market_trends(trends_data) ==
    LET data_points(market) ==
            Cardinality({key \in trends_data[market] :
                            Contains(Chars("year"), KeyName(key))})
    IN  [fn |-> "show_market_trends", requests |-> <<>>, reports |-> <<>>,
         ret |-> [m \in DOMAIN trends_data |->
                     [data_points |-> data_points(m),
                      status |-> IF data_points(m) >= 2 THEN "Active"
                                 ELSE "Limited"]],
         exited |-> FALSE]

\* ads_strategy_report_GPT5High.py, build_master_frames: the theme folders
\* under PROJECT_ROOT, each with its timeline and its geo file
ReportThemes == <<"Glenwild", "Park City Real Estate">>

SampleTimeline(status) ==
    [status |-> status, hasKey |-> TRUE, hasValue |-> TRUE,
     rows |-> IF status = "ok"
              THEN <<[key |-> NumCell(1), value |-> NumCell(7)]>> ELSE <<>>]

SampleGeo(status) ==
    [status |-> status, hasKey |-> TRUE, hasValue |-> TRUE,
     rows |-> IF status = "ok"
              THEN <<[key |-> TextCell(<<"D">>), value |-> NumCell(7)]>> ELSE <<>>]

ThemeFolders ==
    UNION {[1..n -> [timeline : FileStatus, geo : FileStatus]] :
              n \in 0..Len(ReportThemes)}

\* build_master_frames: os.listdir is not guarded, so a PROJECT_ROOT that
\* cannot be listed ends the script with the exception; load_timeline and
\* load_geo return an empty frame without a message when read_csv fails.
\* The set of results it can produce.
build_master_frames(listable, folders) ==
    LET n == Len(folders)
        choices ==
            {tf \in [1..n -> UNION {load_timeline(SampleTimeline(folders[i].timeline)) :
                                        i \in 1..n}] :
                \A i \in 1..n : tf[i] \in load_timeline(SampleTimeline(folders[i].timeline))}
        gf == [i \in 1..n |-> load_geo(SampleGeo(folders[i].geo))]
        Tag(i, rows) == [j \in 1..Len(rows) |-> [theme |-> ReportThemes[i], row |-> rows[j]]]
    IN  IF ~listable
        THEN {[fn |-> "build_master_frames", requests |-> <<>>, reports |-> <<>>,
               ret |-> [time |-> <<>>, geo |-> <<>>], exited |-> TRUE]}
        ELSE {[fn |-> "build_master_frames", requests |-> <<>>, reports |-> <<>>,
               ret |-> [time |-> Flatten([i \in 1..n |-> Tag(i, tf[i])]),
                        geo |-> Flatten([i \in 1..n |-> Tag(i, gf[i])])],
               exited |-> FALSE] : tf \in choices}

(***************************************************************************)
(* ads_strategy_report_GPT5High.py: the geographic deep dive               *)
(***************************************************************************)
\* The themes and DMAs of the geo rows drawn
GeoThemes == <<"Deer Valley", "Glenwild", "Kamas", "Park City">>
GeoDmas == <<"Billings MT", "Boise ID", "Denver CO", "Las Vegas NV",
             "Phoenix AZ", "Salt Lake City UT">>

\* The score of theme t in DMA d in the regular frames
BaseScore(t, d) == (t * d) % 7

\* The frame of the first nT themes over the first nD DMAs, theme by theme
\* as build_master_frames concatenates the themes' frames
BaseGeo(nT, nD) ==
    Flatten([t \in 1..nT |->
        [d \in 1..nD |->
            [theme |-> GeoThemes[t], dma |-> GeoDmas[d], score |-> BaseScore(t, d)]]])

MaxOddGeoRows == 1

\* Scores an irregular row can carry
OddScores == {0, 4}

\* A regular frame but for k rows, each of which names any DMA with an
\* irregular score
RECURSIVE OddGeoFrames(_, _)
OddGeoFrames(base, k) ==
    IF k = 0 THEN {base}
    ELSE LET less == OddGeoFrames(base, k - 1)
         IN  less \cup {[f EXCEPT ![i] = [theme |-> f[i].theme, dma |-> GeoDmas[d],
                                          score |-> s]] :
                            f \in less, i \in 1..Len(base), d \in 1..Len(GeoDmas),
                            s \in OddScores}

\* The master_geo frames drawn have up to k irregular rows.  Numbers of
\* themes and of DMAs of the regular frames: the empty frame,
\* one row, fewer and more themes than are listed for a DMA, fewer and
\* more DMAs than are listed
GeoShapes == {<<0, 0>>, <<1, 1>>, <<2, 6>>, <<4, 3>>, <<4, 6>>}

MasterGeoFrames(k) ==
    UNION {OddGeoFrames(BaseGeo(sh[1], sh[2]), k) : sh \in GeoShapes}

\* head(n) of a frame
HeadRows(rows, n) == SubSeq(rows, 1, IF Len(rows) < n THEN Len(rows) ELSE n)

\* Variant that sorts by score in ascending order
RECURSIVE SortValuesByScoreAscending(_)
SortValuesByScoreAscending(S) ==
    IF S = {} THEN {<<>>}
    ELSE LET low == {x \in S : \A y \in S : x.score <= y.score}
         IN  UNION {{<<x>> \o rest : rest \in SortValuesByScoreAscending(S \ {x})} :
                       x \in low}

\* sort_values("score", ascending=False) of a frame with the rows S: the
\* order of rows with equal scores is left open by the default sort
RECURSIVE SortValuesByScore(_)
SortValuesByScore(S) ==
    IF S = {} THEN {<<>>}
    ELSE LET top == {x \in S : \A y \in S : x.score >= y.score}
         IN  UNION {{<<x>> \o rest : rest \in SortValuesByScore(S \ {x})} :
                       x \in top}

\* groupby("dma")["score"].sum()
SumByDma(master_geo) ==
    {[dma |-> d,
      score |-> SumSeq([i \in 1..Len(master_geo) |->
                           IF master_geo[i].dma = d THEN master_geo[i].score ELSE 0])] :
        d \in {master_geo[i].dma : i \in 1..Len(master_geo)}}

\* sub.sort_values("score", ascending=False).groupby("theme").first(): for
\* each theme of the DMA its highest score
FirstByTheme(master_geo, dma) ==
    LET sub == {i \in 1..Len(master_geo) : master_geo[i].dma = dma}
    IN  {[theme |-> master_geo[i].theme, score |-> master_geo[i].score] :
            i \in {j \in sub :
                      \A k \in sub : master_geo[k].theme = master_geo[j].theme
                                        => master_geo[k].score <= master_geo[j].score}}

TopDmaCount == 5
TopThemeCount == 3

\* top5_dmas_and_top3_themes: the results it can return
top5_dmas_and_top3_themes(master_geo) ==
    IF master_geo = <<>> THEN {[top5 |-> <<>>, themes |-> <<>>]}
    ELSE LET top5s == {HeadRows(agg, TopDmaCount) :
                          agg \in SortValuesByScore(SumByDma(master_geo))}
             TopThemes(dma) ==
                 {HeadRows(t, TopThemeCount) :
                     t \in SortValuesByScore(FirstByTheme(master_geo, dma))}
             \* the dictionaries that give each DMA of D one of its lists
             RECURSIVE Results(_)
             Results(D) ==
                 IF D = {} THEN {<<>>}
                 ELSE LET d == CHOOSE x \in D : TRUE
                      IN  {(d :> v) @@ g : v \in TopThemes(d), g \in Results(D \ {d})}
         IN  UNION {{[top5 |-> top5, themes |-> th] :
                        th \in Results({top5[i].dma : i \in 1..Len(top5)})} :
                       top5 \in top5s}

(***************************************************************************)
(* ads_strategy_report_GPT5High.py: the seasonal peaks                     *)
(***************************************************************************)
\* month_name: datetime(2000, m, 1).strftime("%B")
MonthNames ==
    <<"January", "February", "March", "April", "May", "June", "July",
      "August", "September", "October", "November", "December">>

month_name(m) == MonthNames[m]

MaxSearchValue == 2

\* The weeks a timeline can have a row for: three calendar months in each
\* of two years
TimeSlots ==
    <<[year |-> 2023, month |-> 1], [year |-> 2023, month |-> 7],
      [year |-> 2023, month |-> 12], [year |-> 2024, month |-> 1],
      [year |-> 2024, month |-> 7], [year |-> 2024, month |-> 12]>>

\* The timelines of one theme: for each week a value, or no row (below 0)
ThemeTimelines(theme) ==
    {LET rows == [i \in 1..Len(TimeSlots) |->
                     [theme |-> theme, date |-> TimeSlots[i], value |-> v[i]]]
         Present(r) == r.value >= 0
     IN  SelectSeq(rows, Present) :
        v \in [1..Len(TimeSlots) -> (0 - 1)..MaxSearchValue]}

\* The master_time frames drawn: any timeline of one theme, alone or
\* followed by a second theme that was searched in one July only
MasterTimeFrames(first) ==
    {a \o b : a \in ThemeTimelines(first),
              b \in {<<>>, <<[theme |-> "Kamas", date |-> TimeSlots[2], value |-> 1]>>}}

\* groupby(["theme", "month"])["value"].mean(): a group's mean is kept as
\* the sum and the number of its rows
MonthlyMeans(master_time) ==
    LET Group(theme, month) ==
            {i \in 1..Len(master_time) :
                master_time[i].theme = theme /\ master_time[i].date.month = month}
    IN  {[theme |-> master_time[i].theme, month |-> master_time[i].date.month,
          sum |-> SumSeq([j \in 1..Len(master_time) |->
                     IF j \in Group(master_time[i].theme, master_time[i].date.month)
                     THEN master_time[j].value ELSE 0]),
          count |-> Cardinality(Group(master_time[i].theme,
                                      master_time[i].date.month))] :
            i \in 1..Len(master_time)}

\* Variant that compares the groups by the sum of their values
ValueAtLeastBySum(a, b) == a.sum >= b.sum

\* a.value >= b.value for the means of two groups
ValueAtLeast(a, b) == a.sum * b.count >= b.sum * a.count

\* sort_values("value", ascending=False) of the groups S: the order of
\* groups with equal means is left open by the default sort
RECURSIVE SortValuesByValue(_)
SortValuesByValue(S) ==
    IF S = {} THEN {<<>>}
    ELSE LET top == {x \in S : \A y \in S : ValueAtLeast(x, y)}
         IN  UNION {{<<x>> \o rest : rest \in SortValuesByValue(S \ {x})} :
                       x \in top}

PeakCount == 2

\* compute_peak_months: the dictionaries it can return
compute_peak_months(master_time) ==
    IF master_time = <<>> THEN {<<>>}
    ELSE LET monthly == MonthlyMeans(master_time)
             Peaks(theme) ==
                 {LET top == HeadRows(g2, PeakCount)
                  IN  [i \in 1..Len(top) |-> month_name(top[i].month)] :
                     g2 \in SortValuesByValue({g \in monthly : g.theme = theme})}
             RECURSIVE Results(_)
             Results(T) ==
                 IF T = {} THEN {<<>>}
                 ELSE LET t == CHOOSE x \in T : TRUE
                      IN  {(t :> v) @@ g : v \in Peaks(t), g \in Results(T \ {t})}
         IN  Results({g.theme : g \in monthly})

(***************************************************************************)
(* SpecCalls: one call of an operation with inputs drawn in Init           *)
(***************************************************************************)
MaxKeywordsArgs == {1, 50}

\* Group outcomes with at most one group failing inside its market loop
GroupRuns ==
    {os \in AllGroupOutcomes :
        Cardinality({g \in 1..Len(CampaignGroups) :
                        os[g].fp \in {"adgroup", "keywords"}}) <= 1}

InitCalls ==
    /\ \/ \E c \in Creds : inp = [fn |-> "load_google_ads_client", creds |-> c]
       \/ \E r \in IdeaResponses, k \in MaxKeywordsArgs :
             /\ ValidResponse(r)
             /\ inp = [fn |-> "get_keyword_ideas", r |-> r, max_keywords |-> k]
       \/ \E e \in BOOLEAN, r \in IdeaResponses :
             /\ ValidResponse(r)
             /\ inp = [fn |-> "keyword_analysis_script", envComplete |-> e, r |-> r]
       \/ \E c \in Creds, o \in ParkCityOutcomes :
             inp = [fn |-> "create_park_city_campaign", creds |-> c, o |-> o]
       \/ \E c \in Creds, os \in GroupRuns :
             inp = [fn |-> "create_google_ads_campaigns", creds |-> c, os |-> os]
       \/ \E c \in Creds, ok \in BOOLEAN :
             inp = [fn |-> "check_existing_campaigns", creds |-> c, ok |-> ok]
       \/ \E files \in TrendsFileSystems :
             inp = [fn |-> "load_existing_trends_data", files |-> files]
       \/ \E listable \in BOOLEAN, folders \in ThemeFolders :
             inp = [fn |-> "build_master_frames", listable |-> listable,
                    folders |-> folders]
       \/ \E files \in TrendsFileSystems, table \in QueryTables :
             inp = [fn |-> "analyze_trends_data", files |-> files, table |-> table]
       \/ \E files \in TrendsFileSystems :
             inp = [fn |-> "show_market_trends", files |-> files]
    /\ out = Pending /\ account = <<>>
    /\ sess = <<>> /\ passes = 0 /\ pass = Pending

CallLoadClient ==
    /\ inp.fn = "load_google_ads_client" /\ out = Pending
    /\ out' = Result("load_google_ads_client", <<>>, ClientOf(inp.creds).reports,
                     ClientOf(inp.creds).client, FALSE)
    /\ UNCHANGED <<sess, account, passes, pass, inp>>

CallGetKeywordIdeas ==
    /\ inp.fn = "get_keyword_ideas" /\ out = Pending
    /\ out' = get_keyword_ideas(inp.r, inp.max_keywords)
    /\ UNCHANGED <<sess, account, passes, pass, inp>>

CallKeywordScript ==
    /\ inp.fn = "keyword_analysis_script" /\ out = Pending
    /\ out' = keyword_analysis_script(inp.envComplete, inp.r)
    /\ UNCHANGED <<sess, account, passes, pass, inp>>

CallCreateParkCity ==
    /\ inp.fn = "create_park_city_campaign" /\ out = Pending
    /\ out' = create_park_city_campaign(inp.creds, inp.o)
    /\ account' = account \o CampaignsCreated(out'.requests)
    /\ UNCHANGED <<sess, passes, pass, inp>>

CallCreateGroups ==
    /\ inp.fn = "create_google_ads_campaigns" /\ out = Pending
    /\ out' = create_google_ads_campaigns(inp.creds, inp.os)
    /\ account' = account \o CampaignsCreated(out'.requests)
    /\ UNCHANGED <<sess, passes, pass, inp>>

CallCheckExisting ==
    /\ inp.fn = "check_existing_campaigns" /\ out = Pending
    /\ out' = check_existing_campaigns(inp.creds, inp.ok, account)
    /\ UNCHANGED <<sess, account, passes, pass, inp>>

CallLoadTrends ==
    /\ inp.fn = "load_existing_trends_data" /\ out = Pending
    /\ out' = load_existing_trends_data(inp.files)
    /\ UNCHANGED <<sess, account, passes, pass, inp>>

CallBuildMasterFrames ==
    /\ inp.fn = "build_master_frames" /\ out = Pending
    /\ \E r \in build_master_frames(inp.listable, inp.folders) : out' = r
    /\ UNCHANGED <<sess, account, passes, pass, inp>>

CallAnalyzeTrends ==
    /\ inp.fn = "analyze_trends_data" /\ out = Pending
    /\ out' = analyze_trends_data(load_existing_trends_data(inp.files).ret, inp.table)
    /\ UNCHANGED <<sess, account, passes, pass, inp>>

CallShowMarketTrends ==
    /\ inp.fn = "show_market_trends" /\ out = Pending
    /\ out' = show_market_trends(load_existing_trends_data(inp.files).ret)
    /\ UNCHANGED <<sess, account, passes, pass, inp>>

NextCalls ==
    \/ CallLoadClient
    \/ CallGetKeywordIdeas
    \/ CallKeywordScript
    \/ CallCreateParkCity
    \/ CallCreateGroups
    \/ CallCheckExisting
    \/ CallLoadTrends
    \/ CallBuildMasterFrames
    \/ CallAnalyzeTrends
    \/ CallShowMarketTrends

SpecCalls == InitCalls /\ [][NextCalls]_vars

(***************************************************************************)
(* SpecOps: the account operations run one after another on one account    *)
(***************************************************************************)
MaxCampaigns == 2

\* Credentials of the operator: none, or a valid google-ads.yaml
OpsCreds ==
    {c \in Creds : c.secrets = "absent" /\ c.env = "absent" /\ c.yaml # "invalid"}

\* Group outcomes with at most one failing group
SingleFailureRuns ==
    {os \in AllGroupOutcomes :
        Cardinality({g \in 1..Len(CampaignGroups) : os[g].fp # "none"}) <= 1}

InitOps ==
    /\ inp = Pending /\ out = Pending /\ account = <<>>
    /\ sess = <<>> /\ passes = 0 /\ pass = Pending

RunCreateParkCity ==
    /\ Len(account) < MaxCampaigns
    /\ \E c \in OpsCreds, o \in ParkCityOutcomes :
          /\ inp' = [fn |-> "create_park_city_campaign", creds |-> c, o |-> o]
          /\ out' = create_park_city_campaign(c, o)
          /\ account' = account \o CampaignsCreated(out'.requests)
    /\ UNCHANGED <<sess, passes, pass>>

RunCreateGroups ==
    /\ Len(account) < MaxCampaigns
    /\ \E c \in OpsCreds, os \in SingleFailureRuns :
          /\ inp' = [fn |-> "create_google_ads_campaigns", creds |-> c, os |-> os]
          /\ out' = create_google_ads_campaigns(c, os)
          /\ account' = account \o CampaignsCreated(out'.requests)
    /\ UNCHANGED <<sess, passes, pass>>

RunCheckExisting ==
    /\ \E c \in OpsCreds, ok \in BOOLEAN :
          /\ inp' = [fn |-> "check_existing_campaigns", creds |-> c, ok |-> ok]
          /\ out' = check_existing_campaigns(c, ok, account)
    /\ UNCHANGED <<sess, account, passes, pass>>

NextOps ==
    \/ RunCreateParkCity
    \/ RunCreateGroups
    \/ RunCheckExisting

SpecOps == InitOps /\ [][NextOps]_vars

(***************************************************************************)
(* Claims on single calls (SpecCalls)                                      *)
(***************************************************************************)
Done == out.fn # "pending"

FailedRequests == {i \in 1..Len(out.requests) : ~out.requests[i].ok}

ApiFailed == Done /\ FailedRequests # {}

UnreadableTrends ==
    {f \in Range(TrendsFilesInOrder) : inp.files[f] = "unreadable"}

UnreadableThemeFiles ==
    {i \in 1..Len(inp.folders) :
        inp.folders[i].timeline = "unreadable" \/ inp.folders[i].geo = "unreadable"}

ReadFailed ==
    /\ Done
    /\ \/ out.fn = "load_existing_trends_data" /\ UnreadableTrends # {}
       \/ /\ out.fn = "build_master_frames" /\ inp.listable
          /\ UnreadableThemeFiles # {}

\* C2: whenever a file read or a Google Ads API call fails, the program
\* prints a warning and continues with empty/default data; no such failure
\* terminates the run.
C2_WarnAndContinue ==
    (ApiFailed \/ ReadFailed) => (out.reports # <<>> /\ ~out.exited)

\* C2, as the code has it: a failed API call is always reported; the
\* dashboard operations then continue, the keyword analysis script ends
\* the run.  An unreadable CSV is a warning in load_existing_trends_data,
\* which keeps the files it could read, and is passed over without any
\* message by the loaders of build_master_frames; neither ends the run.
\* A project folder that cannot be listed ends build_master_frames.
C2_FailureHandling ==
    /\ ApiFailed =>
          /\ out.reports # <<>>
          /\ out.exited <=> (out.fn = "keyword_analysis_script")
    /\ (ReadFailed /\ out.fn = "load_existing_trends_data") =>
          /\ Len(out.reports) = Cardinality(UnreadableTrends)
          /\ \A i \in 1..Len(out.reports) : out.reports[i].level = "warning"
          /\ ~out.exited
          /\ \A f \in Range(TrendsFilesInOrder) :
                (inp.files[f] = "ok") <=>
                    /\ f.market \in DOMAIN out.ret
                    /\ [timeframe |-> f.timeframe, suffix |-> KeySuffix(f.kind)]
                           \in out.ret[f.market]
    /\ (ReadFailed /\ out.fn = "build_master_frames") =>
          /\ out.reports = <<>>
          /\ ~out.exited
          /\ \A i \in 1..Len(inp.folders) :
                (inp.folders[i].timeline = "ok") <=>
                    (\E j \in 1..Len(out.ret.time) :
                        out.ret.time[j].theme = ReportThemes[i])
    /\ (Done /\ out.fn = "build_master_frames" /\ ~inp.listable) => out.exited

C2_Witness ==
    /\ out.fn = "keyword_analysis_script"
    /\ inp.r.ending = "ads_error"
    /\ ApiFailed
    /\ out.exited

SameRequest(a, b) == a.method = b.method /\ a.site = b.site

NoRetry ==
    Done => \A i, j \in 1..Len(out.requests) :
                i < j => ~SameRequest(out.requests[i], out.requests[j])

\* C3: each Google Ads API request is attempted at most once per operation
\* (no retry after a failure), and the operation ends after reporting the
\* error: no request follows a failed one.
C3_NoRetryAndEnd ==
    /\ NoRetry
    /\ Done => \A i \in FailedRequests :
                  /\ out.reports # <<>>
                  /\ i = Len(out.requests)

\* C3, as the code has it: no request is issued twice within an operation,
\* every failed request is reported, and get_keyword_ideas ends with its
\* failed request; the campaign creation operations may go on with further
\* requests after a failed one.
C3_NoRetry ==
    /\ NoRetry
    /\ ApiFailed => out.reports # <<>>
    /\ (ApiFailed /\ out.fn = "get_keyword_ideas") => Len(out.requests) = 1

C3_Witness ==
    /\ out.fn = "create_google_ads_campaigns"
    /\ \E i \in FailedRequests :
          /\ out.requests[i].method = "mutate_campaign_budgets"
          /\ i < Len(out.requests)
          /\ out.requests[i + 1].method = "mutate_campaigns"
          /\ \E j \in (i + 2)..Len(out.requests) :
                out.requests[j].site.group # out.requests[i].site.group

\* C6: load_google_ads_client returns the client of the first source, in
\* the order secrets, environment, google-ads.yaml, that loads
\* successfully, going on to the next source when one fails to load;
\* (None, None) only when no source yields a client.
C6_FirstLoadableSource ==
    out.fn = "load_google_ads_client" =>
        out.ret = ClaimLoadClient(inp.creds.secrets, inp.creds.env,
                                  inp.creds.yaml).client

\* C7: when the keyword-ideas request raises a Google Ads API error, its
\* error code and every message of its error list are reported and
\* get_keyword_ideas returns an empty list, whatever ideas had arrived.
C7_AdsErrorReported ==
    (out.fn = "get_keyword_ideas" /\ inp.r.ending = "ads_error") =>
        /\ Len(out.reports) = 1 + inp.r.messages
        /\ out.reports[1] = Report("error", inp.r.code, 0)
        /\ \A i \in 1..inp.r.messages :
              out.reports[i + 1] = Report("error", "message", i)
        /\ out.ret = <<>>
        /\ ~out.exited

C7_Witness ==
    /\ out.fn = "get_keyword_ideas"
    /\ inp.r.ending = "ads_error"
    /\ inp.r.ideas > 0
    /\ inp.r.messages > 1
    /\ out.ret = <<>>

(***************************************************************************)
(* Claims on the account (SpecOps)                                         *)
(***************************************************************************)
CampaignRequests ==
    IF Done
    THEN {out.requests[i] : i \in {j \in 1..Len(out.requests) :
                                      out.requests[j].method = "mutate_campaigns"}}
    ELSE {}

\* C4: every campaign the dashboard creates is sent with status PAUSED, and
\* no later operation changes the status of a campaign of the account.
C4_CampaignsPaused ==
    /\ [](/\ \A r \in CampaignRequests : r.status = "PAUSED"
          /\ \A i \in 1..Len(account) : account[i].status = "PAUSED")
    /\ [][/\ Len(account') >= Len(account)
          /\ \A i \in 1..Len(account) : account'[i] = account[i]]_vars

C4_Witness ==
    /\ out.fn = "check_existing_campaigns"
    /\ Len(out.ret) > 1
    /\ \E i, j \in 1..Len(account) :
          /\ account[i].site.op = "park_city"
          /\ account[j].site.op = "group"

(***************************************************************************)
(* Spec: the dashboard, app.py main(), rendered for two sessions           *)
(***************************************************************************)
MaxPasses == 4

Sessions == {"s1", "s2"}

StrategyTypes ==
    {"Comprehensive Analysis", "Market-Specific Focus", "Seasonal Campaign",
     "New Market Entry"}

QuickActions ==
    {"find_keywords", "view_trends", "budget_allocation", "create_park_city"}

\* st.session_state of a session that has not run the script yet, with
\* what its page shows: sidebar (the sidebar and the tabs were rendered by
\* the last pass) and new_market (so was the New Market Entry section with
\* its two buttons)
NewSession ==
    [trends_data |-> "absent",
     show_keywords |-> FALSE, show_trends |-> FALSE, show_budget |-> FALSE,
     create_campaign |-> FALSE,
     strategy_type |-> "absent", strategy |-> FALSE,
     sidebar |-> FALSE, new_market |-> FALSE]

\* What a pass meets outside the session: the credentials, how a campaign
\* creation goes, whether the campaign search succeeds, whether a second
\* chart with the key "budget_allocation_chart" raises, and whether the
\* widget values survive a pass ended by an exception
PassEnvs ==
    [creds : OpsCreds,
     o : {x \in ParkCityOutcomes :
             x.fp \in {"none", "campaign"} /\ ~x.geoFail /\ ~x.langFail},
     ok : BOOLEAN, dupRaises : BOOLEAN, keepWidgets : BOOLEAN]

NoRequests ==
    Result("none", <<>>, <<>>,
           [created |-> FALSE, status |-> "None",
            ad_group_count |-> 0, keyword_count |-> 0], FALSE)

\* The value of the selectbox with key "strategy_type" when the script
\* starts: the user's choice if this pass is run for one
WidgetValue(st, trigger) ==
    IF trigger \in StrategyTypes THEN trigger ELSE st.strategy_type

\* Lines 2232-2246: a clicked quick action button sets its flag
QuickActionFlags(st, trigger) ==
    [st EXCEPT
        !.show_keywords = @ \/ trigger = "find_keywords",
        !.show_trends = @ \/ trigger = "view_trends",
        !.show_budget = @ \/ trigger = "budget_allocation",
        !.create_campaign = @ \/ trigger = "create_park_city"]

\* Calls of show_budget_allocation in one pass: line 2263 and line 2280
BudgetAllocationCalls(st, stype) ==
    (IF st.show_budget THEN 1 ELSE 0)
        + (IF stype = "Comprehensive Analysis" THEN 1 ELSE 0)

\* One run of main() for a session: the session state it leaves and the
\* record of the pass
main(st, trigger, env, campaigns) ==
    LET stype == WidgetValue(st, trigger)
        st1 == QuickActionFlags(st, trigger)
        budgetCalls == BudgetAllocationCalls(st1, stype)
        park == IF st1.create_campaign
                THEN create_park_city_campaign(env.creds, env.o)
                ELSE NoRequests
        afterPark == campaigns \o CampaignsCreated(park.requests)
        duplicateKey == budgetCalls > 1 /\ env.dupRaises
        newMarket == stype = "New Market Entry"
        nameError == newMarket /\ trigger = "create_all_groups"
        check == IF newMarket /\ trigger = "check_existing"
                 THEN check_existing_campaigns(env.creds, env.ok, afterPark)
                 ELSE NoRequests
        crashed == duplicateKey \/ nameError
    IN  [sess |->
            [st1 EXCEPT
                !.trends_data = "None",
                !.strategy_type =
                    IF crashed
                    THEN (IF env.keepWidgets THEN stype ELSE "absent")
                    ELSE IF stype = "absent" THEN "Comprehensive Analysis"
                    ELSE stype,
                !.strategy = @ \/ (trigger = "generate_strategy" /\ ~crashed),
                !.sidebar = ~crashed,
                !.new_market = newMarket /\ ~crashed],
         pass |->
            [fn |-> "main", trigger |-> trigger,
             reads |-> 1 + budgetCalls,
             requests |-> park.requests \o check.requests,
             crashed |-> IF duplicateKey THEN "DuplicateKey"
                         ELSE IF nameError THEN "NameError" ELSE "no"],
         account |-> afterPark]

\* The parts of the environment a pass does not meet are left at a default
Relevant(st, trigger, env) ==
    LET stype == WidgetValue(st, trigger)
        st1 == QuickActionFlags(st, trigger)
        checks == stype = "New Market Entry" /\ trigger = "check_existing"
        twice == BudgetAllocationCalls(st1, stype) > 1
        crashes == (twice /\ env.dupRaises)
                   \/ (stype = "New Market Entry" /\ trigger = "create_all_groups")
    IN  /\ (~st1.create_campaign /\ ~checks) => env.creds.yaml = "valid"
        /\ (~st1.create_campaign \/ env.creds.yaml # "valid") => env.o.fp = "none"
        /\ (~checks \/ env.creds.yaml # "valid") => env.ok
        /\ ~twice => ~env.dupRaises
        /\ ~crashes => env.keepWidgets

\* Variant with one state shared by all sessions
SessionStateShared(all, s, st) == [t \in DOMAIN all |-> st]

\* st.session_state belongs to one session: a pass stores into its own
SessionState(all, s, st) == [all EXCEPT ![s] = st]

Init ==
    /\ sess = [s \in Sessions |-> NewSession]
    /\ account = <<>>
    /\ passes = 0
    /\ pass = [fn |-> "none", session |-> "none", trigger |-> "none", reads |-> 0,
               requests |-> <<>>, crashed |-> "no"]
    /\ inp = [fn |-> "clicks", create_park_city |-> 0]
    /\ out = Pending

Render(s, trigger) ==
    /\ passes < MaxPasses
    /\ \E env \in PassEnvs :
          /\ Relevant(sess[s], trigger, env)
          /\ LET r == main(sess[s], trigger, env, account)
             IN  /\ sess' = SessionState(sess, s, r.sess)
                 /\ pass' = [fn |-> "main", session |-> s, trigger |-> trigger,
                             reads |-> r.pass.reads, requests |-> r.pass.requests,
                             crashed |-> r.pass.crashed]
                 /\ account' = r.account
    /\ passes' = passes + 1
    /\ inp' = [inp EXCEPT !.create_park_city =
                  @ + (IF trigger = "create_park_city" THEN 1 ELSE 0)]
    /\ UNCHANGED out

\* Opening the page, or a rerun for a widget that changes no session state
Rerun(s) ==
    /\ s \in Sessions
    /\ Render(s, "rerun")

\* The quick action buttons are above every place where a pass can end
ClickQuickAction(s, b) ==
    /\ sess[s].trends_data # "absent"
    /\ Render(s, b)

SelectStrategy(s, t) ==
    /\ sess[s].sidebar
    /\ sess[s].strategy_type # t
    /\ Render(s, t)

GenerateStrategy(s) ==
    /\ sess[s].sidebar
    /\ Render(s, "generate_strategy")

ClickCreateAll(s) ==
    /\ sess[s].new_market
    /\ Render(s, "create_all_groups")

ClickCheckExisting(s) ==
    /\ sess[s].new_market
    /\ Render(s, "check_existing")

Next ==
    \E s \in Sessions :
        \/ Rerun(s)
        \/ \E b \in QuickActions : ClickQuickAction(s, b)
        \/ \E t \in StrategyTypes : SelectStrategy(s, t)
        \/ GenerateStrategy(s)
        \/ ClickCreateAll(s)
        \/ ClickCheckExisting(s)

Spec == Init /\ [][Next]_vars

(***************************************************************************)
(* Claims on the dashboard (Spec)                                          *)
(***************************************************************************)
CreationMethods ==
    {"mutate_campaign_budgets", "mutate_campaigns", "mutate_ad_groups",
     "mutate_ad_group_criteria"}

CreationRequests ==
    {i \in 1..Len(pass.requests) : pass.requests[i].method \in CreationMethods}

ParkCityCampaigns ==
    {i \in 1..Len(account) : account[i].site.op = "park_city"}

\* C1: a render pass issues campaign-creation requests only if a creation
\* button was clicked in that same pass, and the campaigns created from
\* 'Create Park City Campaign' never outnumber the clicks on it.
C1_CreationOnlyOnClick ==
    /\ CreationRequests # {} =>
          pass.trigger \in {"create_park_city", "create_all_groups"}
    /\ Cardinality(ParkCityCampaigns) <= inp.create_park_city

\* C8: within one render pass of the dashboard every Google Trends CSV is
\* read at most once, that is load_existing_trends_data runs at most once.
C8_ReadOncePerPass == pass.reads <= 1

CreationCall ==
    Done /\ out.fn \in {"create_park_city_campaign", "create_google_ads_campaigns"}

FailedBudgets ==
    {i \in FailedRequests : out.requests[i].method = "mutate_campaign_budgets"}

\* C11: when create_campaign_budget fails, the campaign creation issues no
\* mutate_campaigns request for that campaign and returns None.
C11_NoCampaignAfterFailedBudget ==
    CreationCall =>
        \A i \in FailedBudgets :
            /\ \A j \in 1..Len(out.requests) :
                  ~(/\ out.requests[j].method = "mutate_campaigns"
                    /\ out.requests[j].site = out.requests[i].site)
            /\ out.fn = "create_park_city_campaign" => ~out.ret.created
            /\ out.fn = "create_google_ads_campaigns" =>
                  \A k \in 1..Len(out.ret.created) :
                      out.ret.created[k].group # out.requests[i].site.group

\* Objects actually created for campaign group g by the successful
\* requests of the given method
CreatedFor(g, method) ==
    SumSeq([i \in 1..Len(out.requests) |->
               IF /\ out.requests[i].ok
                  /\ out.requests[i].method = method
                  /\ out.requests[i].site.op = "group"
                  /\ out.requests[i].site.group = g
               THEN out.requests[i].n ELSE 0])

\* C12: the ad_group_count and keyword_count returned for a campaign group
\* equal the numbers of ad groups and keywords created by successful
\* requests, also when a later request of the market loop fails.
C12_CountsMatchCreated ==
    (Done /\ out.fn = "create_google_ads_campaigns") =>
        \A k \in 1..Len(out.ret.created) :
            LET c == out.ret.created[k]
            IN  /\ c.ad_group_count = CreatedFor(c.group, "mutate_ad_groups")
                /\ c.keyword_count = CreatedFor(c.group, "mutate_ad_group_criteria")

TargetingFailed ==
    /\ Done /\ out.fn = "create_park_city_campaign"
    /\ ClientOf(inp.creds).client # "None"
    /\ CampaignAccepted(inp.o)
    /\ inp.o.geoFail \/ inp.o.langFail

MethodsSent == {out.requests[i].method : i \in 1..Len(out.requests)}

\* C13: a failed geographic or language targeting request does not end the
\* campaign creation: it is a warning, the ad group request is still sent
\* and the keywords after it, and the campaign result is returned instead
\* of None; with no other failure the ad group and all keywords are counted.
C13_TargetingFailureNotFatal ==
    TargetingFailed =>
        /\ \E i \in 1..Len(out.reports) : out.reports[i].level = "warning"
        /\ "mutate_ad_groups" \in MethodsSent
        /\ inp.o.fp # "adgroup" => "mutate_ad_group_criteria" \in MethodsSent
        /\ out.ret.created
        /\ out.ret.status = "PAUSED"
        /\ inp.o.fp = "none" =>
              /\ out.ret.ad_group_count = 1
              /\ out.ret.keyword_count = ParkCityKeywordCount

C13_Witness ==
    /\ TargetingFailed
    /\ inp.o.geoFail /\ inp.o.langFail
    /\ inp.o.fp = "none"
    /\ out.ret.created

\* The keyword texts a call has sent in accepted requests
KeywordsSent ==
    UNION {out.requests[i].texts : i \in {j \in 1..Len(out.requests) : out.requests[j].ok}}

ParkCityCreated ==
    /\ Done /\ out.fn = "create_park_city_campaign"
    /\ out.ret.created
    /\ out.ret.keyword_count > 0

\* C14: when create_park_city_campaign creates the campaign, every keyword
\* and every negative keyword of campaign_config is sent to the API and no
\* keyword outside campaign_config is sent.
C14_KeywordsFromConfig ==
    ParkCityCreated =>
        /\ ConfigKeywords \subseteq KeywordsSent
        /\ ConfigNegativeKeywords \subseteq KeywordsSent
        /\ KeywordsSent \subseteq (ConfigKeywords \cup ConfigNegativeKeywords)

(***************************************************************************)
(* Further claims on the dashboard (Spec)                                  *)
(***************************************************************************)
GroupAttempts ==
    {pass.requests[i].site.group :
        i \in {j \in 1..Len(pass.requests) :
                  /\ pass.requests[j].method = "mutate_campaigns"
                  /\ pass.requests[j].site.op = "group"}}

\* C15: a click on 'Create All Campaign Groups in Google Ads' runs
\* create_google_ads_campaigns to its end: the pass is not cut short, and
\* with a connected client one creation is attempted for each of the four
\* campaign groups (none without a client).
C15_CreateAllAttemptsEveryGroup ==
    pass.trigger = "create_all_groups" =>
        /\ pass.crashed = "no"
        /\ GroupAttempts \in {{}, 1..Len(CampaignGroups)}

(***************************************************************************)
(* Further claims on the campaign operations (SpecCalls)                   *)
(***************************************************************************)
\* The status with which the request that created the campaign of group g
\* was sent
CreatedStatus(g) ==
    {out.requests[i].status :
        i \in {j \in 1..Len(out.requests) :
                  /\ out.requests[j].method = "mutate_campaigns"
                  /\ out.requests[j].ok
                  /\ out.requests[j].site = Site("group", g, 0)}}

\* C16: every row of the Campaign Creation Summary shows the status with
\* which its campaign was created.
C16_SummaryShowsCreatedStatus ==
    (Done /\ out.fn = "create_google_ads_campaigns") =>
        \A i \in 1..Len(out.ret.summary) :
            CreatedStatus(out.ret.summary[i].group) = {out.ret.summary[i].status}

\* The related-queries tables the loader has loaded, one per market and
\* timeframe
LoadedQueries ==
    {f \in Range(TrendsFilesInOrder) :
        f.kind = "relatedQueries" /\ inp.files[f] = "ok"}

\* C17: on the loader's data, total_keywords is the number of rows, over
\* all loaded related-queries tables of all markets, whose first column is
\* present and is not 'TOP'.
C17_TotalKeywordsCountsLoadedRows ==
    (Done /\ out.fn = "analyze_trends_data") =>
        out.ret.total_keywords =
            Cardinality(LoadedQueries) * Cardinality(KeywordRows(inp.table))

\* The datasets the loader has loaded for a market
LoadedDatasets(market) ==
    {f \in Range(TrendsFilesInOrder) : f.market = market /\ inp.files[f] = "ok"}

\* C18: every loaded market is listed with the number of its loaded
\* datasets, and is 'Active' exactly when that number is at least 2.
C18_ActiveWhenTwoDatasets ==
    (Done /\ out.fn = "show_market_trends") =>
        \A m \in DOMAIN out.ret :
            /\ out.ret[m].data_points = Cardinality(LoadedDatasets(m))
            /\ out.ret[m].status = "Active" <=> Cardinality(LoadedDatasets(m)) >= 2

(***************************************************************************)
(* SpecReport: one call of a report function on master frames drawn in     *)
(* Init                                                                    *)
(***************************************************************************)
InitReport ==
    /\ \/ \E g \in MasterGeoFrames(MaxOddGeoRows) :
             inp = [fn |-> "top5_dmas_and_top3_themes", master_geo |-> g]
       \/ \E t \in MasterTimeFrames("Glenwild") :
             inp = [fn |-> "compute_peak_months", master_time |-> t]
    /\ out = Pending
    /\ sess = <<>> /\ account = <<>> /\ passes = 0 /\ pass = Pending

RunTopDmas ==
    /\ inp.fn = "top5_dmas_and_top3_themes" /\ out = Pending
    /\ \E r \in top5_dmas_and_top3_themes(inp.master_geo) :
          out' = [fn |-> "top5_dmas_and_top3_themes", ret |-> r]
    /\ UNCHANGED <<sess, account, passes, pass, inp>>

RunPeakMonths ==
    /\ inp.fn = "compute_peak_months" /\ out = Pending
    /\ \E r \in compute_peak_months(inp.master_time) :
          out' = [fn |-> "compute_peak_months", ret |-> r]
    /\ UNCHANGED <<sess, account, passes, pass, inp>>

NextReport ==
    \/ RunTopDmas
    \/ RunPeakMonths

SpecReport == InitReport /\ [][NextReport]_vars

NonIncreasing(rows) == \A i \in 1..(Len(rows) - 1) : rows[i].score >= rows[i + 1].score

Distinct(names) == \A i, j \in 1..Len(names) : names[i] = names[j] => i = j

\* The score of a DMA summed over the rows of all themes
DmaTotal(dma) ==
    SumSeq([i \in 1..Len(inp.master_geo) |->
               IF inp.master_geo[i].dma = dma THEN inp.master_geo[i].score ELSE 0])

\* C19: at most 5 DMAs are returned, each with its score summed over all
\* themes, in non-increasing order of that sum; each of them has at most 3
\* distinct themes in non-increasing order of score, and every theme
\* listed for a DMA has a geo row for that DMA with the score listed.
C19_TopDmasAndThemes ==
    out.fn = "top5_dmas_and_top3_themes" =>
        LET top5 == out.ret.top5
            themes == out.ret.themes
        IN  /\ Len(top5) <= 5
            /\ Distinct([i \in 1..Len(top5) |-> top5[i].dma])
            /\ \A i \in 1..Len(top5) : top5[i].score = DmaTotal(top5[i].dma)
            /\ NonIncreasing(top5)
            /\ DOMAIN themes = {top5[i].dma : i \in 1..Len(top5)}
            /\ \A d \in DOMAIN themes :
                  /\ Len(themes[d]) <= 3
                  /\ Distinct([i \in 1..Len(themes[d]) |-> themes[d][i].theme])
                  /\ NonIncreasing(themes[d])
                  /\ \A i \in 1..Len(themes[d]) :
                        \E j \in 1..Len(inp.master_geo) :
                           inp.master_geo[j] = [theme |-> themes[d][i].theme, dma |-> d,
                                                score |-> themes[d][i].score]

\* More than 5 DMAs and, in a returned DMA, more than 3 themes were given,
\* and scores were tied
C19_Witness ==
    /\ out.fn = "top5_dmas_and_top3_themes"
    /\ Len(out.ret.top5) = 5
    /\ Cardinality({inp.master_geo[i].dma : i \in 1..Len(inp.master_geo)}) > 5
    /\ \E d \in DOMAIN out.ret.themes :
          /\ Len(out.ret.themes[d]) = 3
          /\ Cardinality({inp.master_geo[i].theme :
                             i \in {j \in 1..Len(inp.master_geo) :
                                       inp.master_geo[j].dma = d}}) > 3
    /\ \E i \in 1..4 : out.ret.top5[i].score = out.ret.top5[i + 1].score

\* The rows of a theme in a calendar month, over all years
MonthRows(theme, m) ==
    {i \in 1..Len(inp.master_time) :
        inp.master_time[i].theme = theme /\ inp.master_time[i].date.month = m}

MonthTotal(theme, m) ==
    SumSeq([i \in 1..Len(inp.master_time) |->
               IF i \in MonthRows(theme, m) THEN inp.master_time[i].value ELSE 0])

\* The mean value of month a of the theme is at least that of month b
MeanAtLeast(theme, a, b) ==
    MonthTotal(theme, a) * Cardinality(MonthRows(theme, b))
        >= MonthTotal(theme, b) * Cardinality(MonthRows(theme, a))

MonthsWithData(theme) == {m \in 1..12 : MonthRows(theme, m) # {}}

MonthNumber(name) == CHOOSE m \in 1..12 : MonthNames[m] = name

\* C20: every theme with timeline rows gets at most two distinct calendar
\* months (two when it has rows in two months or more); they are months
\* with rows, listed with the higher mean first, and no month left out has
\* a higher mean, over the rows of all years, than a month listed.
C20_PeakMonths ==
    out.fn = "compute_peak_months" =>
        /\ DOMAIN out.ret = {inp.master_time[i].theme : i \in 1..Len(inp.master_time)}
        /\ \A theme \in DOMAIN out.ret :
              LET peaks == out.ret[theme]
                  months == [i \in 1..Len(peaks) |-> MonthNumber(peaks[i])]
              IN  /\ Len(peaks) <= 2
                  /\ Len(peaks) = Min({2, Cardinality(MonthsWithData(theme))})
                  /\ \A i \in 1..Len(peaks) : peaks[i] \in Range(MonthNames)
                  /\ Distinct(months)
                  /\ Range(months) \subseteq MonthsWithData(theme)
                  /\ \A i \in 1..(Len(months) - 1) :
                        MeanAtLeast(theme, months[i], months[i + 1])
                  /\ \A m \in MonthsWithData(theme) \ Range(months) :
                        \A i \in 1..Len(months) : MeanAtLeast(theme, months[i], m)

\* A theme with rows in three months of both years, where the month with
\* the highest mean is not a month with the highest total
C20_Witness ==
    /\ out.fn = "compute_peak_months"
    /\ \E theme \in DOMAIN out.ret :
          /\ Cardinality(MonthsWithData(theme)) = 3
          /\ Len(out.ret[theme]) = 2
          /\ \E m \in MonthsWithData(theme) :
                /\ Cardinality(MonthRows(theme, m)) = 2
                /\ MonthTotal(theme, m) > MonthTotal(theme, MonthNumber(out.ret[theme][1]))
                /\ ~MeanAtLeast(theme, m, MonthNumber(out.ret[theme][1]))

====
